---- MODULE Spec2Model ----
(***************************************************************************)
(* The block-tree database of copernicus (package blkdb), its loader, and  *)
(* the blockchain RPC handlers (package rpc).                              *)
(* The store is one ordered keyspace shared by several tables, each key    *)
(* starting with a one-byte category prefix.  The in-memory block index is *)
(* a map from block hash to a node held by reference; references are       *)
(* modelled as positions in an arena of nodes.  The RPC handlers run as    *)
(* threads over the active chain, some of them under the lock CsMain.      *)
(* Each part has a specification of its own over the same variables.       *)
(***************************************************************************)
EXTENDS Integers, Sequences, FiniteSets, TLC

VARIABLES
    dbw,        \* the key-value store behind BlockTreeDB.dbw: key -> stored value
    blkIdxMap,  \* the caller's map: block hash -> node reference (Nil: no entry)
    arena,      \* the nodes allocated so far; a node reference is a position in it
    last,       \* the operation that ran last, its arguments, result and pre-state
    prevLoad,   \* the LoadBlockIndexGuts call before the last one, if any
    synced,     \* the store images a crash of the machine can leave behind
    active,     \* the active chain: block hashes from genesis to the tip
    status,     \* per block hash, the status bits of its node in the global index
    csMain,     \* persist.CsMain: the thread holding it, NoThread when free
    thr,        \* per RPC thread, the handler it runs and where it is in it
    now         \* the wall clock, in ticks

\* The state of the RPC layer and of the chain it serves.
rpcVars == <<active, status, csMain, thr, now>>

vars == <<dbw, blkIdxMap, arena, last, prevLoad, synced, rpcVars>>

(***************************************************************************)
(* Bounds of the model.                                                    *)
(***************************************************************************)
MaxHash == 3        \* block hashes are 1..MaxHash; 0 is the all-zero hash
MaxFile == 1        \* block file ids are 0..MaxFile
MaxFlag == 3        \* number of distinct flag names
MaxBatchHash == 2   \* WriteBatchSync is handed block indexes of hashes 1..MaxBatchHash
NumThreads == 2     \* RPC requests served at the same time
MaxTx == 2          \* transaction ids are 1..MaxTx
MaxTime == 3        \* the clock runs from 0 to MaxTime
MaxTimeout == 1     \* a waiting request gives a timeout of 0..MaxTimeout ticks

(***************************************************************************)
(* Keys: category prefix, then the key body.                               *)
(***************************************************************************)
DbBlockFiles == "f"
DbLastBlock == "l"
DbBlockIndex == "b"
DbFlag == "F"
DbTxIndex == "t"
DbReindexFlag == "R"
DbMaxBlock == "m"

HashZero == 0
Hashes == HashZero..MaxHash
NonNullHashes == (HashZero + 1)..MaxHash
FileIds == 0..MaxFile
FlagNames == 1..MaxFlag
Txids == 1..MaxTx

FlagKey(name) == <<DbFlag, name>>
BlockFileKey(file) == <<DbBlockFiles, file>>
LastBlockKey == <<DbLastBlock>>
BlockIndexKey(hash) == <<DbBlockIndex, hash>>
TxIndexKey(txid) == <<DbTxIndex, txid>>
ReindexKey == <<DbReindexFlag>>
MaxBlockKey == <<DbMaxBlock>>

KeySpace ==
    {FlagKey(n) : n \in FlagNames} \cup {BlockFileKey(f) : f \in FileIds}
        \cup {LastBlockKey} \cup {BlockIndexKey(h) : h \in NonNullHashes}
        \cup {TxIndexKey(t) : t \in Txids} \cup {ReindexKey, MaxBlockKey}

(***************************************************************************)
(* Stored values.  Every value is a record with a kind; a key that holds   *)
(* nothing maps to NotFound.                                               *)
(***************************************************************************)
NotFound == [kind |-> "absent"]
Bytes(b) == [kind |-> "bytes", b |-> b]

EmptyDb == [k \in KeySpace |-> NotFound]

NoOp == [op |-> "none"]

\* The RPC layer before any request: no chain activated, nobody holds the
\* lock, every thread idle.
NoThread == 0
Threads == 1..NumThreads
Idle == [pc |-> "idle"]
RpcAtRest ==
    /\ active = <<>>
    /\ status = [h \in NonNullHashes |-> {}]
    /\ csMain = NoThread
    /\ thr = [t \in Threads |-> Idle]
    /\ now = 0

\* dbw.Write(key, value, sync): one put; a failed write changes nothing.
DbWrite(db, key, value, ok) == IF ok THEN [db EXCEPT ![key] = value] ELSE db

\* dbw.Erase(key, sync): one delete.
DbErase(db, key) == [db EXCEPT ![key] = NotFound]

\* The images a crash can leave once a write has made the store db: a
\* synced write is on disk when it returns, so db is the only image; an
\* unsynced one may or may not have reached the disk, so db joins the images
\* there were.  The empty set stands for "not tracked" in the specifications
\* without crashes.
Durable(images, db, sync) ==
    IF images = {} THEN {}
    ELSE IF sync THEN {db}
    ELSE images \cup {db}

\* util.WriteElements(buf, uint64(n)) for a 32-bit signed n: eight bytes,
\* least significant first, of n converted to 64 bits unsigned.
U64Bytes(n) ==
    IF n >= 0
    THEN <<n % 256, (n \div 256) % 256, (n \div 65536) % 256,
           (n \div 16777216) % 256, 0, 0, 0, 0>>
    ELSE LET m == (n + 2147483647) + 1 IN
         <<m % 256, (m \div 256) % 256, (m \div 65536) % 256,
           ((m \div 16777216) % 128) + 128, 255, 255, 255, 255>>

\* util.ReadElements(buf, &int32): the first four bytes, least significant
\* first, as a 32-bit signed integer.
I32FromBytes(b) ==
    LET low == b[1] + 256 * b[2] + 65536 * b[3] + 16777216 * (b[4] % 128) IN
    IF b[4] >= 128 THEN (low - 2147483647) - 1 ELSE low

(***************************************************************************)
(* Block-index records and nodes.                                          *)
(***************************************************************************)
Nil == 0    \* the nil node reference; arena positions start at 1

\* blockindex.NewBlockIndex(block.NewBlockHeader()): every field at its zero
\* value, no parent.
NewBlockIndex ==
    [blockHash |-> HashZero, Prev |-> Nil, Height |-> 0, File |-> 0,
     DataPos |-> 0, UndoPos |-> 0, Version |-> 0, HashPrevBlock |-> HashZero,
     MerkleRoot |-> 0, Time |-> 0, Bits |-> 0, Nonce |-> 0, Status |-> 0,
     TxCount |-> 0]

\* The block-index records handed to the store: hash, previous hash,
\* transaction count and bits vary; the remaining fields are fixed nonzero
\* data derived from the hash.
BlockIndexOf(hash, prevHash, txCount, bits) ==
    [blockHash |-> hash, Prev |-> Nil,
     Height |-> IF prevHash = HashZero THEN 0 ELSE 1,
     File |-> MaxFile, DataPos |-> hash + 8, UndoPos |-> hash + 16, Version |-> 2,
     HashPrevBlock |-> prevHash, MerkleRoot |-> hash + 32, Time |-> hash + 64,
     Bits |-> bits, Nonce |-> hash + 128, Status |-> 3, TxCount |-> txCount]

\* Bits under which every hash of the model meets its target, and bits under
\* which the given hash does not.
EasyBits == MaxHash
HardBits(hash) == hash - 1

\* A stored block-index value: "blockindex" decodes to bi; "corrupt" makes
\* Unserialize return an error and leaves bi as far as it was filled;
\* "empty" makes the cursor yield no value.
Stored(bi) == [kind |-> "blockindex", bi |-> bi]
CorruptLate(bi) == [kind |-> "corrupt", bi |-> bi]
CorruptEarly == [kind |-> "corrupt", bi |-> NewBlockIndex]
EmptyValue == [kind |-> "empty"]

\* pow.CheckProofOfWork(hash, bits, params): the bits must give a positive
\* target within the limit and the hash must not exceed it.
PowLimit == MaxHash
Target(bits) == bits
CheckProofOfWork(hash, bits) ==
    /\ Target(bits) > 0
    /\ Target(bits) <= PowLimit
    /\ hash <= Target(bits)

EmptyMap == [h \in Hashes |-> Nil]

(***************************************************************************)
(* The loader.  A load state carries the map, the arena, the store, the    *)
(* keys visited so far and the result once the scan has returned.          *)
(***************************************************************************)

\* InsertBlockIndex that allocates a node on every call.
InsertBlockIndexAlwaysNew(hash, st) ==
    IF hash = HashZero THEN [st EXCEPT !.node = Nil]
    ELSE [st EXCEPT !.node = Len(st.arena) + 1,
                    !.map[hash] = Len(st.arena) + 1,
                    !.arena = Append(st.arena, NewBlockIndex)]

\* InsertBlockIndex that makes a node for the all-zero hash too.
InsertBlockIndexNoNullCheck(hash, st) ==
    IF st.map[hash] # Nil THEN [st EXCEPT !.node = st.map[hash]]
    ELSE [st EXCEPT !.node = Len(st.arena) + 1,
                    !.map[hash] = Len(st.arena) + 1,
                    !.arena = Append(st.arena, NewBlockIndex)]

\* InsertBlockIndex(hash, blkIdxMap): the node of the map for hash, made and
\* entered if there is none; nil for the all-zero hash.  The node comes back
\* in st.node.
InsertBlockIndex(hash, st) ==
    IF st.map[hash] # Nil THEN [st EXCEPT !.node = st.map[hash]]
    ELSE IF hash = HashZero THEN [st EXCEPT !.node = Nil]
    ELSE [st EXCEPT !.node = Len(st.arena) + 1,
                    !.map[hash] = Len(st.arena) + 1,
                    !.arena = Append(st.arena, NewBlockIndex)]

\* The assignments of lines 1296-1309: the parent reference and every
\* persisted field of bi copied into the node.
FilledNode(bi, pre) ==
    [blockHash |-> bi.blockHash, Prev |-> pre, Height |-> bi.Height,
     File |-> bi.File, DataPos |-> bi.DataPos, UndoPos |-> bi.UndoPos,
     Version |-> bi.Version, HashPrevBlock |-> bi.HashPrevBlock,
     MerkleRoot |-> bi.MerkleRoot, Time |-> bi.Time, Bits |-> bi.Bits,
     Nonce |-> bi.Nonce, Status |-> bi.Status, TxCount |-> bi.TxCount]

\* A proof-of-work check whose failure is logged and the scan goes on.
PowCheckedLogOnly(bi, st) == st

\* Lines 1311-1314: a record failing its proof of work ends the load.
PowChecked(bi, st) ==
    IF ~CheckProofOfWork(bi.blockHash, bi.Bits)
    THEN [st EXCEPT !.ret = "false"]
    ELSE st

\* One turn of the scan loop, for the record under key k.
LoadRecord(k, st) ==
    LET val == st.db[k]
        seen == [st EXCEPT !.visited = Append(st.visited, k)]
    IN
    IF val.kind = "empty"
    THEN [seen EXCEPT !.ret = "false"]
    ELSE
        LET bi == val.bi IN     \* a decode error is logged and the scan goes on
        IF bi.TxCount = 0
        THEN [seen EXCEPT !.db = DbErase(st.db, k)]
        ELSE
            LET s1 == InsertBlockIndex(bi.blockHash, seen)
                newIndex == s1.node
            IN
            IF newIndex = Nil THEN s1
            ELSE
                LET s2 == InsertBlockIndex(bi.HashPrevBlock, s1)
                    s3 == [s2 EXCEPT !.arena[newIndex] = FilledNode(bi, s2.node)]
                IN
                PowChecked(bi, s3)

\* The keys the cursor yields: those with the block-index prefix, ascending.
IndexKeys(db) ==
    LET present == {h \in NonNullHashes : db[BlockIndexKey(h)].kind # "absent"}
        RECURSIVE Ascending(_)
        Ascending(S) ==
            IF S = {} THEN <<>>
            ELSE LET m == CHOOSE x \in S : \A y \in S : x <= y
                 IN <<BlockIndexKey(m)>> \o Ascending(S \ {m})
    IN Ascending(present)

RECURSIVE ScanFrom(_, _)
ScanFrom(keys, st) ==
    IF st.ret # "running" THEN st
    ELSE IF keys = <<>> THEN [st EXCEPT !.ret = "true"]
    ELSE ScanFrom(Tail(keys), LoadRecord(Head(keys), st))

\* LoadBlockIndexGuts(blkIdxMap, params) run to its return.
LoadBlockIndexGutsResult(db, map, nodes) ==
    ScanFrom(IndexKeys(db),
             [db |-> db, map |-> map, arena |-> nodes, node |-> Nil,
              visited |-> <<>>, ret |-> "running"])

\* The graph a map and its arena stand for: per hash, the node's fields with
\* the parent given as the hash under which the map holds it.
KeyOfNode(map, n) ==
    IF n = Nil THEN HashZero
    ELSE IF \E h \in Hashes : map[h] = n
         THEN CHOOSE h \in Hashes : map[h] = n
         ELSE 0 - n
Graph(map, nodes) ==
    [h \in Hashes |->
        IF map[h] = Nil THEN [present |-> FALSE]
        ELSE [present |-> TRUE,
              parent |-> KeyOfNode(map, nodes[map[h]].Prev),
              fields |-> [nodes[map[h]] EXCEPT !.Prev = Nil]]]

LoadBlockIndexGuts(fresh) ==
    /\ prevLoad = NoOp
    /\ LET map0 == IF fresh THEN EmptyMap ELSE blkIdxMap
           nodes0 == IF fresh THEN <<>> ELSE arena
           r == LoadBlockIndexGutsResult(dbw, map0, nodes0)
       IN
       /\ dbw' = r.db
       /\ blkIdxMap' = r.map
       /\ arena' = r.arena
       /\ last' = [op |-> "LoadBlockIndexGuts", ret |-> r.ret,
                   visited |-> r.visited, preDb |-> dbw, preMap |-> map0,
                   preArena |-> nodes0, graph |-> Graph(r.map, r.arena)]
       /\ prevLoad' = last
    /\ UNCHANGED <<synced, rpcVars>>

\* The stored bytes of one block-index record go bad between runs.
CorruptRecord(hash, how) ==
    /\ last = NoOp
    /\ \A h \in NonNullHashes : dbw[BlockIndexKey(h)].kind \in {"absent", "blockindex"}
    /\ dbw[BlockIndexKey(hash)].kind = "blockindex"
    /\ dbw' = [dbw EXCEPT ![BlockIndexKey(hash)] =
                  CASE how = "late" -> CorruptLate(@.bi)
                    [] how = "early" -> CorruptEarly
                    [] OTHER -> EmptyValue]
    /\ UNCHANGED <<blkIdxMap, arena, last, prevLoad, synced, rpcVars>>

\* Stores a run of the node may have left: any set of records, each under
\* the key of its own hash.
RecordChoice ==
    {<<"none", HashZero, TRUE>>, <<"notx", HashZero, TRUE>>}
        \cup ({"tx"} \X NonNullHashes \X BOOLEAN)
ChosenValue(hash, c) ==
    IF c[1] = "none" THEN NotFound
    ELSE IF c[1] = "notx" THEN Stored(BlockIndexOf(hash, HashZero, 0, EasyBits))
    ELSE Stored(BlockIndexOf(hash, (hash + c[2]) % (MaxHash + 1), 1,
                             IF c[3] THEN EasyBits ELSE HardBits(hash)))

InitLoad ==
    /\ \E f \in [NonNullHashes -> RecordChoice] :
          dbw = [k \in KeySpace |->
                    IF k[1] = DbBlockIndex THEN ChosenValue(k[2], f[k[2]])
                    ELSE IF k = LastBlockKey /\ (\E h \in NonNullHashes : f[h][1] # "none")
                    THEN Bytes(U64Bytes(MaxFile))
                    ELSE NotFound]
    /\ blkIdxMap = EmptyMap
    /\ arena = <<>>
    /\ last = NoOp
    /\ prevLoad = NoOp
    /\ synced = {}
    /\ RpcAtRest

NextLoad ==
    \/ \E h \in NonNullHashes, how \in {"late", "early", "empty"} : CorruptRecord(h, how)
    \/ \E fresh \in BOOLEAN : LoadBlockIndexGuts(fresh)

SpecLoad == InitLoad /\ [][NextLoad]_vars

(***************************************************************************)
(* Properties of the loader.                                               *)
(***************************************************************************)
LoadDone == last.op = "LoadBlockIndexGuts"
LoadOk == LoadDone /\ last.ret = "true"

\* The value the last load found under the key of hash h.
PreRec(h) == last.preDb[BlockIndexKey(h)]

\* h held a decodable record with transactions when the last load began.
HadRecord(h) == PreRec(h).kind = "blockindex" /\ PreRec(h).bi.TxCount # 0

\* The node of hash h carries every field of the record bi.
CarriesFields(h, bi) ==
    /\ blkIdxMap[h] # Nil
    /\ [arena[blkIdxMap[h]] EXCEPT !.Prev = Nil] = bi

\* Record A under h1 names h2, which has record B of its own.
ChildAndParent(h1, h2) ==
    /\ h1 # h2
    /\ HadRecord(h1)
    /\ HadRecord(h2)
    /\ PreRec(h1).bi.HashPrevBlock = h2

\* C2: for records A (hash h1, prev h2) and B (hash h2), in whichever order
\* the cursor visits them, after the load the map holds exactly one node for
\* h2, it carries B's fields, and node(h1).Prev is that node.
C2_StubBackfilledInPlace ==
    LoadOk =>
        \A h1, h2 \in NonNullHashes :
            ChildAndParent(h1, h2) =>
                /\ CarriesFields(h2, PreRec(h2).bi)
                /\ blkIdxMap[h1] # Nil
                /\ arena[blkIdxMap[h1]].Prev = blkIdxMap[h2]
                /\ Cardinality({n \in 1..Len(arena) : arena[n].blockHash = h2}) = 1
                /\ \A n \in 1..Len(arena) : \E h \in NonNullHashes : blkIdxMap[h] = n

\* A load into an empty map that met a child before its parent and the other
\* way round.
C2_Witness ==
    /\ LoadOk
    /\ last.preMap = EmptyMap
    /\ \E h1, h2 \in NonNullHashes : h1 < h2 /\ ChildAndParent(h1, h2)
    /\ \E h1, h2 \in NonNullHashes : h1 > h2 /\ ChildAndParent(h1, h2)

\* Record g is a genesis record and c its child.
GenesisAndChild(g, c) ==
    /\ ChildAndParent(c, g)
    /\ PreRec(g).bi.HashPrevBlock = HashZero
    /\ PreRec(g).bi.Height = 0
    /\ PreRec(c).bi.Height = 1

\* C3: loading a genesis record (previous hash all-zero, height 0) and a
\* child of it (height 1) gives node(child).Prev = node(genesis) and
\* node(genesis).Prev = none, and the map has no node for the all-zero hash.
C3_GenesisHasNoParent ==
    LoadOk =>
        \A g, c \in NonNullHashes :
            GenesisAndChild(g, c) =>
                /\ blkIdxMap[g] # Nil
                /\ blkIdxMap[c] # Nil
                /\ arena[blkIdxMap[c]].Prev = blkIdxMap[g]
                /\ arena[blkIdxMap[g]].Prev = Nil
                /\ blkIdxMap[HashZero] = Nil

\* A successful load of exactly a genesis record and its child.
C3_Witness ==
    /\ LoadOk
    /\ \E g, c \in NonNullHashes : GenesisAndChild(g, c)
    /\ Len(arena) = 2

\* C4: after one pass of the loader every record persisted with transaction
\* count 0 is gone from the store and has no node in the map, also when
\* another record names its hash as previous block.
C4_ZeroTxCountNeverMaterialized ==
    (LoadOk /\ last.preMap = EmptyMap) =>
        \A h \in NonNullHashes :
            (PreRec(h).kind = "blockindex" /\ PreRec(h).bi.TxCount = 0) =>
                /\ dbw[BlockIndexKey(h)] = NotFound
                /\ blkIdxMap[h] = Nil

\* C5: a record that fails to decode ends the load with failure; neither it
\* nor any later record is processed.
C5_DecodeFailureAborts ==
    LoadDone =>
        \A i \in 1..Len(last.visited) :
            last.preDb[last.visited[i]].kind = "corrupt" =>
                /\ last.ret = "false"
                /\ i = Len(last.visited)

\* The record under key k, as decoded, has transactions and fails its proof
\* of work.
FailsPow(k) ==
    /\ last.preDb[k].kind \in {"blockindex", "corrupt"}
    /\ last.preDb[k].bi.TxCount # 0
    /\ ~CheckProofOfWork(last.preDb[k].bi.blockHash, last.preDb[k].bi.Bits)

\* C6: a visited record with transactions whose hash fails the proof-of-work
\* check makes the load return false and stop there; the load returns true
\* only if every record it materialized passed the check.
C6_PowFailureAborts ==
    LoadDone =>
        /\ \A i \in 1..Len(last.visited) :
              FailsPow(last.visited[i]) =>
                  (last.ret = "false" /\ i = Len(last.visited))
        /\ last.ret = "true" =>
              /\ last.visited = IndexKeys(last.preDb)
              /\ \A h \in NonNullHashes : ~FailsPow(BlockIndexKey(h))
        /\ \A h \in NonNullHashes :
              (\A i \in 1..Len(last.visited) : last.visited[i] # BlockIndexKey(h))
                  => dbw[BlockIndexKey(h)] = PreRec(h)

\* A load that stopped at a record failing its proof of work, with records
\* left unvisited behind it.
C6_Witness ==
    /\ LoadDone
    /\ last.ret = "false"
    /\ Len(last.visited) > 1
    /\ FailsPow(last.visited[Len(last.visited)])
    /\ Len(last.visited) < Len(IndexKeys(last.preDb))

\* C7: when the load reports failure the caller's map is as it was before
\* the call.
C7_FailedLoadLeavesMapUntouched ==
    (LoadDone /\ last.ret = "false") =>
        /\ blkIdxMap = last.preMap
        /\ arena = last.preArena

\* C9: a second load over the same keyspace, into an empty map or into the
\* map the first load produced, yields the same node keys, the same parent
\* link for every node and the same field values, and the same result.
C9_LoadIdempotent ==
    (LoadDone /\ prevLoad.op = "LoadBlockIndexGuts") =>
        /\ last.graph = prevLoad.graph
        /\ last.ret = prevLoad.ret
        /\ Graph(blkIdxMap, arena) = prevLoad.graph

\* A second load into the map of the first, which holds a node with a parent.
C9_Witness ==
    /\ LoadDone
    /\ prevLoad.op = "LoadBlockIndexGuts"
    /\ last.preMap # EmptyMap
    /\ \E h \in NonNullHashes :
          last.graph[h].present /\ last.graph[h].parent # HashZero

\* C11: after a load that reports success every entry (k, node) of the map
\* is fully populated: the node's own hash is k, its transaction count is
\* nonzero and its fields are those of the record persisted under k; no
\* default-valued stub made only as some record's parent remains.
C11_NoStubRemains ==
    (LoadOk /\ last.preMap = EmptyMap) =>
        \A k \in Hashes :
            blkIdxMap[k] # Nil =>
                /\ arena[blkIdxMap[k]].blockHash = k
                /\ arena[blkIdxMap[k]].TxCount # 0
                /\ PreRec(k).kind = "blockindex"
                /\ CarriesFields(k, PreRec(k).bi)

(***************************************************************************)
(* The batch writer and the block-file accessors.                          *)
(***************************************************************************)

\* The file infos of the model: the file an entry is meant for and its
\* aggregate counts.
BlockFileInfoOf(file) == [file |-> file, Blocks |-> file + 1, Size |-> 80 * (file + 1)]
FileInfoValue(info) == [kind |-> "fileinfo", info |-> info]

\* A batch is a sequence of puts <<key, value>>; dbw.WriteBatch commits it
\* as a whole or not at all.  The process may die during the commit, with
\* the batch either logged ("crash-applied") or not ("crash-lost").
RECURSIVE ApplyBatch(_, _)
ApplyBatch(db, batch) ==
    IF batch = <<>> THEN db
    ELSE ApplyBatch([db EXCEPT ![Head(batch)[1]] = Head(batch)[2]], Tail(batch))

CommitOutcomes == {"ok", "fail", "crash-applied", "crash-lost"}

DbWriteBatch(db, batch, outcome) ==
    IF outcome \in {"ok", "crash-applied"} THEN ApplyBatch(db, batch) ELSE db

\* Lines 1162-1172: one put per file info, each under the key of file 0.
FileInfoPuts(fileInfoList) ==
    [i \in 1..Len(fileInfoList) |->
        <<BlockFileKey(0), FileInfoValue(fileInfoList[i])>>]

\* Lines 1173-1175: the last-file counter.
LastFilePut(lastFile) == <<LastBlockKey, Bytes(U64Bytes(lastFile))>>

\* Lines 1177-1186: one put per block index, under the key of its hash.
BlockIndexPuts(blockIndexes) ==
    [i \in 1..Len(blockIndexes) |->
        <<BlockIndexKey(blockIndexes[i].blockHash), Stored(blockIndexes[i])>>]

\* WriteBatchSync that writes each entry to the store as it goes; a failure
\* stops it where it is.
WriteBatchSyncUnbatched(db, fileInfoList, lastFile, blockIndexes, failAt, outcome) ==
    LET all == FileInfoPuts(fileInfoList) \o <<LastFilePut(lastFile)>>
                   \o BlockIndexPuts(blockIndexes)
        n == Len(fileInfoList) + Len(blockIndexes)
    IN
    IF failAt > 0
    THEN [db |-> ApplyBatch(db, SubSeq(all, 1, IF failAt <= Len(fileInfoList)
                                               THEN failAt - 1 ELSE failAt)),
          err |-> "serialize", batch |-> <<>>]
    ELSE IF outcome \in {"ok", "crash-applied"}
    THEN [db |-> ApplyBatch(db, all), err |-> outcome, batch |-> all]
    ELSE [db |-> ApplyBatch(db, SubSeq(all, 1, Len(fileInfoList) + 1)),
          err |-> outcome, batch |-> all]

\* WriteBatchSync(fileInfoList, lastFile, blockIndexes) run to its return.
\* failAt > 0 makes Serialize fail on that entry (file infos counted first,
\* then block indexes); outcome is how the commit ends.  The result holds
\* the store, the batch that was built and the error ("ok": none).
WriteBatchSyncResult(db, fileInfoList, lastFile, blockIndexes, failAt, outcome) ==
    LET filePuts == FileInfoPuts(fileInfoList)
        indexPuts == BlockIndexPuts(blockIndexes)
    IN
    IF failAt > 0 /\ failAt <= Len(fileInfoList)
    THEN [db |-> db, err |-> "serialize", batch |-> SubSeq(filePuts, 1, failAt - 1)]
    ELSE IF failAt > Len(fileInfoList)
    THEN [db |-> db, err |-> "serialize",
          batch |-> filePuts \o <<LastFilePut(lastFile)>>
                        \o SubSeq(indexPuts, 1, failAt - Len(fileInfoList) - 1)]
    ELSE LET batch == filePuts \o <<LastFilePut(lastFile)>> \o indexPuts IN
         [db |-> DbWriteBatch(db, batch, outcome), err |-> outcome, batch |-> batch]

\* ReadBlockFileInfo(file): nil when the key is absent, a panic on any other
\* read error, else the decoded entry.
ReadBlockFileInfoResult(db, file, readOk) ==
    LET v == db[BlockFileKey(file)] IN
    IF ~readOk THEN [ret |-> "panic"]
    ELSE IF v.kind = "absent" THEN [ret |-> "nil"]
    ELSE [ret |-> "info", info |-> v.info]

\* ReadLastBlockFile that decodes the upper half of the stored eight bytes.
ReadLastBlockFileUpperHalf(db) ==
    LET v == db[LastBlockKey] IN
    IF v.kind = "absent" THEN [ret |-> "error"]
    ELSE [ret |-> "value", value |-> I32FromBytes(SubSeq(v.b, 5, 8))]

\* ReadLastBlockFile(): the counter, or the store's error.
ReadLastBlockFileResult(db) ==
    LET v == db[LastBlockKey] IN
    IF v.kind = "absent" THEN [ret |-> "error"]
    ELSE [ret |-> "value", value |-> I32FromBytes(v.b)]

\* The lists handed to WriteBatchSync: file infos for a set of distinct
\* files in ascending order, block indexes for a run of consecutive hashes.
RECURSIVE AscendingSeq(_)
AscendingSeq(S) ==
    IF S = {} THEN <<>>
    ELSE LET m == CHOOSE x \in S : \A y \in S : x <= y
         IN <<m>> \o AscendingSeq(S \ {m})

FileInfoLists ==
    {[i \in 1..Cardinality(S) |-> BlockFileInfoOf(AscendingSeq(S)[i])] :
        S \in SUBSET FileIds}

LastFiles == {0, MaxFile}
BatchHashes == (HashZero + 1)..MaxBatchHash

\* The block index of a hash as written while file is the last block file.
BlockIndexInFile(hash, file) ==
    [BlockIndexOf(hash, hash - 1, 1, EasyBits) EXCEPT !.File = file]

BlockIndexLists(file) ==
    {[i \in 1..(b - a + 1) |-> BlockIndexInFile(a + i - 1, file)] :
        a \in BatchHashes, b \in BatchHashes} \cup {<<>>}

WriteBatchSync(fileInfoList, lastFile, blockIndexes, failAt, outcome) ==
    /\ last.op # "WriteBatchSync"
    /\ failAt <= Len(fileInfoList) + Len(blockIndexes)
    /\ failAt > 0 => outcome = "ok"
    /\ LET r == WriteBatchSyncResult(dbw, fileInfoList, lastFile, blockIndexes,
                                     failAt, outcome)
       IN
       /\ dbw' = r.db
       /\ last' = [op |-> "WriteBatchSync", fileInfoList |-> fileInfoList,
                   lastFile |-> lastFile, blockIndexes |-> blockIndexes,
                   failAt |-> failAt, err |-> r.err, batch |-> r.batch,
                   preDb |-> dbw]
    /\ UNCHANGED <<blkIdxMap, arena, prevLoad, synced, rpcVars>>

ReadBlockFileInfo(file, readOk) ==
    /\ last' = [op |-> "ReadBlockFileInfo", file |-> file,
                result |-> ReadBlockFileInfoResult(dbw, file, readOk)]
    /\ UNCHANGED <<dbw, blkIdxMap, arena, prevLoad, synced, rpcVars>>

ReadLastBlockFile ==
    /\ last' = [op |-> "ReadLastBlockFile", result |-> ReadLastBlockFileResult(dbw)]
    /\ UNCHANGED <<dbw, blkIdxMap, arena, prevLoad, synced, rpcVars>>

\* The stores earlier batches can have left: nothing at all, or a last-file
\* counter with, possibly, a file info under the key of file 0 and block
\* indexes under their hashes.
BatchWrittenStores ==
    {EmptyDb} \cup
    {[k \in KeySpace |->
         IF k = LastBlockKey THEN Bytes(U64Bytes(lf))
         ELSE IF k = BlockFileKey(0) THEN fi
         ELSE IF k[1] = DbBlockIndex /\ k[2] \in BatchHashes THEN idx[k[2]]
         ELSE NotFound] :
        lf \in LastFiles,
        fi \in {NotFound} \cup {FileInfoValue(BlockFileInfoOf(f)) : f \in FileIds},
        idx \in [BatchHashes ->
                   {NotFound} \cup {Stored(BlockIndexInFile(h, f)) :
                                       h \in BatchHashes, f \in LastFiles}]}

InitStore ==
    /\ dbw \in {db \in BatchWrittenStores :
                  \A h \in BatchHashes :
                      db[BlockIndexKey(h)].kind = "absent"
                          \/ db[BlockIndexKey(h)].bi.blockHash = h}
    /\ blkIdxMap = EmptyMap
    /\ arena = <<>>
    /\ last = NoOp
    /\ prevLoad = NoOp
    /\ synced = {}
    /\ RpcAtRest

NextStore ==
    \/ \E fl \in FileInfoLists, lf \in LastFiles :
          \E bis \in BlockIndexLists(lf),
             failAt \in 0..(Cardinality(FileIds) + MaxBatchHash),
             outcome \in CommitOutcomes :
             WriteBatchSync(fl, lf, bis, failAt, outcome)
    \/ \E f \in FileIds, readOk \in BOOLEAN : ReadBlockFileInfo(f, readOk)
    \/ ReadLastBlockFile

SpecStore == InitStore /\ [][NextStore]_vars

BatchChangesEveryKey ==
    /\ last.op = "WriteBatchSync"
    /\ last.fileInfoList # <<>>
    /\ last.blockIndexes # <<>>
    /\ \A i \in 1..Len(last.batch) :
          last.preDb[last.batch[i][1]] # last.batch[i][2]

C10_FileInfoUnderOwnKey ==
    (last.op = "WriteBatchSync" /\ last.err = "ok") =>
        \A i \in 1..Len(last.fileInfoList) :
            ReadBlockFileInfoResult(dbw, last.fileInfoList[i].file, TRUE)
                = [ret |-> "info", info |-> last.fileInfoList[i]]

\* C18: when serializing an entry fails while the batch is being built,
\* WriteBatchSync returns that error without committing: the store is as it
\* was before the call.
C18_SerializeFailureCommitsNothing ==
    (last.op = "WriteBatchSync" /\ last.failAt > 0) =>
        /\ last.err = "serialize"
        /\ dbw = last.preDb

\* A block index failed to serialize after file infos, the counter and an
\* earlier block index had been put in the batch, all of them new to the
\* store.
C18_Witness ==
    /\ last.op = "WriteBatchSync"
    /\ last.failAt > Len(last.fileInfoList) + 1
    /\ last.fileInfoList # <<>>
    /\ Len(last.batch) = Len(last.fileInfoList) + 2
    /\ \A i \in 1..Len(last.batch) :
          last.preDb[last.batch[i][1]] # last.batch[i][2]

(***************************************************************************)
(* Named flags.                                                            *)
(***************************************************************************)
Char0 == 48     \* '0'
Char1 == 49     \* '1'

\* The byte WriteFlag stores for a value.
WriteFlagByte(value) == IF ~value THEN <<Char1>> ELSE <<Char0>>

\* ReadFlag: "panic" when the read yields no bytes (b[0] on a nil slice).
ReadFlagResult(db, name, readOk) ==
    LET v == db[FlagKey(name)] IN
    IF ~readOk \/ v.kind = "absent" THEN "panic"
    ELSE IF v.b[1] = Char1 THEN "true" ELSE "false"

BoolStr(b) == IF b THEN "true" ELSE "false"

WriteFlag(name, value, ok) ==
    /\ dbw' = DbWrite(dbw, FlagKey(name), Bytes(WriteFlagByte(value)), ok)
    /\ last' = [op |-> "WriteFlag", name |-> name, value |-> value, ok |-> ok]
    /\ UNCHANGED <<blkIdxMap, arena, prevLoad, synced, rpcVars>>

ReadFlag(name, readOk) ==
    /\ last' = [op |-> "ReadFlag", name |-> name, readOk |-> readOk,
                ret |-> ReadFlagResult(dbw, name, readOk)]
    /\ UNCHANGED <<dbw, blkIdxMap, arena, prevLoad, synced, rpcVars>>

InitFlag ==
    /\ dbw = EmptyDb
    /\ blkIdxMap = EmptyMap
    /\ arena = <<>>
    /\ last = NoOp
    /\ prevLoad = NoOp
    /\ synced = {}
    /\ RpcAtRest

NextFlag ==
    \/ \E n \in FlagNames, v \in BOOLEAN, ok \in BOOLEAN : WriteFlag(n, v, ok)
    \/ \E n \in FlagNames, readOk \in BOOLEAN : ReadFlag(n, readOk)

SpecFlag == InitFlag /\ [][NextFlag]_vars

\* C1: after a successful WriteFlag(name, v), ReadFlag(name) returns v: the
\* byte written for a boolean state is the byte read back as that state.
C1_FlagRoundTrip ==
    (last.op = "WriteFlag" /\ last.ok)
        => ReadFlagResult(dbw, last.name, TRUE) = BoolStr(last.value)

\* C13: ReadFlag on a name that was never written, or whose read fails in
\* the store, returns false and completes normally.
C13_ReadFlagAbsentIsFalse ==
    (last.op = "ReadFlag"
        /\ (~last.readOk \/ dbw[FlagKey(last.name)].kind = "absent"))
        => last.ret = "false"

(***************************************************************************)
(* The transaction index.                                                  *)
(***************************************************************************)

\* The positions the index holds: the block file, the block's position in
\* it and the transaction's offset in the block.
DiskTxPosOf(txid, file) == [File |-> file, Pos |-> 8 * txid, TxOffsetIn |-> txid + 80]
TxPosValue(pos) == [kind |-> "txpos", pos |-> pos]
CorruptTxPos == [kind |-> "corrupt"]

\* The maps handed to WriteTxIndex: a position for each of some txids.
TxIndexMaps ==
    UNION {[S -> {DiskTxPosOf(t, f) : t \in Txids, f \in FileIds}] :
              S \in SUBSET Txids}

TxIndexPuts(txIndexes) ==
    LET ids == AscendingSeq(DOMAIN txIndexes) IN
    [i \in 1..Len(ids) |-> <<TxIndexKey(ids[i]), TxPosValue(txIndexes[ids[i]])>>]

\* WriteTxIndex(txIndexes) run to its return: one put per entry, committed
\* as one batch; a Serialize failure returns before the commit.
WriteTxIndexResult(db, txIndexes, serializeOk, outcome) ==
    IF ~serializeOk THEN [db |-> db, err |-> "serialize"]
    ELSE [db |-> DbWriteBatch(db, TxIndexPuts(txIndexes), outcome), err |-> outcome]

\* ReadTxIndex(txid) run to its return.  dbw.Read gives an error for an
\* absent key (leveldb.ErrNotFound, as tested in ReadBlockFileInfo) and for
\* a failed read; any error is a panic.  Bytes that do not decode come back
\* as the decoder's error.
ReadTxIndexResult(db, txid, readOk) ==
    LET v == db[TxIndexKey(txid)] IN
    IF ~readOk \/ v.kind = "absent" THEN [ret |-> "panic"]
    ELSE IF v.kind = "corrupt" THEN [ret |-> "error"]
    ELSE [ret |-> "pos", pos |-> v.pos]

WriteTxIndex(txIndexes, serializeOk, outcome) ==
    /\ ~serializeOk => outcome = "ok"
    /\ ~serializeOk => txIndexes # <<>>
    /\ LET r == WriteTxIndexResult(dbw, txIndexes, serializeOk, outcome) IN
       /\ dbw' = r.db
       /\ last' = [op |-> "WriteTxIndex", txIndexes |-> txIndexes, err |-> r.err]
    /\ UNCHANGED <<blkIdxMap, arena, prevLoad, synced, rpcVars>>

ReadTxIndex(txid, readOk) ==
    /\ last' = [op |-> "ReadTxIndex", txid |-> txid, readOk |-> readOk,
                result |-> ReadTxIndexResult(dbw, txid, readOk)]
    /\ UNCHANGED <<dbw, blkIdxMap, arena, prevLoad, synced, rpcVars>>

\* The stored bytes of one index entry go bad.
CorruptTxIndex(txid) ==
    /\ dbw[TxIndexKey(txid)].kind = "txpos"
    /\ dbw' = [dbw EXCEPT ![TxIndexKey(txid)] = CorruptTxPos]
    /\ last' = NoOp
    /\ UNCHANGED <<blkIdxMap, arena, prevLoad, synced, rpcVars>>

InitTxIndex ==
    /\ dbw = EmptyDb
    /\ blkIdxMap = EmptyMap
    /\ arena = <<>>
    /\ last = NoOp
    /\ prevLoad = NoOp
    /\ synced = {}
    /\ RpcAtRest

NextTxIndex ==
    \/ \E m \in TxIndexMaps, serializeOk \in BOOLEAN, outcome \in CommitOutcomes :
          WriteTxIndex(m, serializeOk, outcome)
    \/ \E t \in Txids, readOk \in BOOLEAN : ReadTxIndex(t, readOk)
    \/ \E t \in Txids : CorruptTxIndex(t)

SpecTxIndex == InitTxIndex /\ [][NextTxIndex]_vars

\* C12: ReadTxIndex never aborts the process: for a transaction id with no
\* stored entry it returns "not present", and for a failed read or bytes that
\* do not decode it returns an error value.
C12_ReadTxIndexNeverAborts ==
    last.op = "ReadTxIndex" =>
        LET v == dbw[TxIndexKey(last.txid)] IN
        /\ last.result.ret # "panic"
        /\ (last.readOk /\ v.kind = "absent") => last.result.ret = "nil"
        /\ (~last.readOk \/ v.kind = "corrupt") => last.result.ret = "error"

(***************************************************************************)
(* The file-id counters: written as 64 bits unsigned, read as 32 bits      *)
(* signed.                                                                 *)
(***************************************************************************)
MaxInt32 == 2147483647
MinInt32 == (0 - MaxInt32) - 1

\* File ids across the 32-bit signed range: both ends, both signs, and a
\* value in each byte position.
Int32Samples == {MinInt32, 0 - 65536, 0 - 2, 0 - 1, 0, 1, 255, 256, 16777216, MaxInt32}

\* WriteMaxBlockFile(file) is one unsynced write of uint64(file).
MaxBlockFileValue(file) == Bytes(U64Bytes(file))

\* ReadMaxBlockFile(): -2 and the error when the read fails or the key is
\* absent, else the first four bytes as a 32-bit signed integer.
ReadMaxBlockFileResult(db, readOk) ==
    LET v == db[MaxBlockKey] IN
    IF ~readOk \/ v.kind = "absent" THEN [ret |-> "error", value |-> 0 - 2]
    ELSE [ret |-> "value", value |-> I32FromBytes(v.b)]

WriteMaxBlockFile(file, ok) ==
    /\ dbw' = DbWrite(dbw, MaxBlockKey, MaxBlockFileValue(file), ok)
    /\ synced' = Durable(synced, dbw', FALSE)
    /\ last' = [op |-> "WriteMaxBlockFile", file |-> file, ok |-> ok]
    /\ UNCHANGED <<blkIdxMap, arena, prevLoad, rpcVars>>

ReadMaxBlockFile(readOk) ==
    /\ last' = [op |-> "ReadMaxBlockFile", readOk |-> readOk,
                result |-> ReadMaxBlockFileResult(dbw, readOk)]
    /\ UNCHANGED <<dbw, blkIdxMap, arena, prevLoad, synced, rpcVars>>

InitCounter ==
    /\ dbw = EmptyDb
    /\ blkIdxMap = EmptyMap
    /\ arena = <<>>
    /\ last = NoOp
    /\ prevLoad = NoOp
    /\ synced = {}
    /\ RpcAtRest

NextCounter ==
    \/ \E n \in Int32Samples, outcome \in CommitOutcomes :
          WriteBatchSync(<<>>, n, <<>>, 0, outcome)
    \/ ReadLastBlockFile
    \/ \E n \in Int32Samples, ok \in BOOLEAN : WriteMaxBlockFile(n, ok)
    \/ \E readOk \in BOOLEAN : ReadMaxBlockFile(readOk)

SpecCounter == InitCounter /\ [][NextCounter]_vars

ReindexMark == Bytes(<<1>>)

\* WriteReindexing(reindexing) run to its return: a write of the marker or
\* its erasure, both with sync = false.
WriteReindexingResult(db, reindexing, ok) ==
    IF ~ok THEN db
    ELSE IF reindexing THEN DbWrite(db, ReindexKey, ReindexMark, TRUE)
    ELSE DbErase(db, ReindexKey)

\* ReadReindexing(): whether the marker's key exists.
ReadReindexingResult(db) == db[ReindexKey].kind # "absent"

WriteReindexing(reindexing, ok) ==
    /\ dbw' = WriteReindexingResult(dbw, reindexing, ok)
    /\ synced' = Durable(synced, dbw', FALSE)
    /\ last' = [op |-> "WriteReindexing", reindexing |-> reindexing, ok |-> ok]
    /\ UNCHANGED <<blkIdxMap, arena, prevLoad, rpcVars>>

ReadReindexing ==
    /\ last' = [op |-> "ReadReindexing", ret |-> ReadReindexingResult(dbw)]
    /\ UNCHANGED <<dbw, blkIdxMap, arena, prevLoad, synced, rpcVars>>

\* The machine goes down and the node starts again over what the disk holds.
CrashAndRestart ==
    /\ synced # {}
    /\ dbw' \in synced
    /\ synced' = {dbw'}
    /\ last' = [op |-> "CrashAndRestart", preDb |-> dbw]
    /\ UNCHANGED <<blkIdxMap, arena, prevLoad, rpcVars>>

InitReindex ==
    /\ dbw = EmptyDb
    /\ blkIdxMap = EmptyMap
    /\ arena = <<>>
    /\ last = NoOp
    /\ prevLoad = NoOp
    /\ synced = {dbw}
    /\ RpcAtRest

NextReindex ==
    \/ \E reindexing \in BOOLEAN, ok \in BOOLEAN : WriteReindexing(reindexing, ok)
    \/ ReadReindexing
    \/ \E f \in FileIds, ok \in BOOLEAN : WriteMaxBlockFile(f, ok)
    \/ \E readOk \in BOOLEAN : ReadMaxBlockFile(readOk)
    \/ CrashAndRestart

SpecReindex == InitReindex /\ [][NextReindex]_vars

\* C14: after WriteReindexing(true) returns success, ReadReindexing returns
\* true on every later read until a successful WriteReindexing(false), also
\* after a crash and restart: the marker is written durably.
C14_ReindexMarkerDurable ==
    /\ (last.op = "WriteReindexing" /\ last.reindexing /\ last.ok)
          => ReadReindexingResult(dbw)
    /\ (last.op = "CrashAndRestart" /\ ReadReindexingResult(last.preDb))
          => ReadReindexingResult(dbw)

(***************************************************************************)
(* The RPC handlers over the chain.  The block tree is one branch: block h *)
(* has parent h - 1 and height h - 1, block 1 is the genesis block.  Every *)
(* block is in the global index; the active chain is a prefix of the       *)
(* branch.  A handler runs in steps, one per access to shared state, so    *)
(* that requests served at the same time interleave where no lock stops    *)
(* them.                                                                   *)
(***************************************************************************)
BlockFailed == "failed"
BlockFailedParent == "failedParent"
BlockInvalidMask == {BlockFailed, BlockFailedParent}

Malformed == 0 - 1      \* a hash string GetHashFromStr rejects

\* The block hashes a request can name: malformed, the hash of no block
\* (all-zero), or a block of the index.
RequestHashes == {Malformed} \cup Hashes

\* gchain.Tip(), TipHeight(), GetIndex(height), FindBlockIndex(hash),
\* FindHashInActive(hash); HashZero stands for the nil index.
Tip(chain) == chain[Len(chain)]
TipHeight(chain) == Len(chain) - 1
GetIndex(chain, height) ==
    IF height \in 0..(Len(chain) - 1) THEN chain[height + 1] ELSE HashZero
FindBlockIndex(hash) == IF hash \in NonNullHashes THEN hash ELSE HashZero
FindHashInActive(chain, hash) ==
    IF \E i \in 1..Len(chain) : chain[i] = hash THEN hash ELSE HashZero

\* lchain.InvalidBlockParentFound(tip), lchain.InvalidBlockFound(bi),
\* SubStatus(BlockInvalidMask) with gchain.ResetBlockFailureFlags(bi): the
\* failure bits set on one node, and cleared on bi and on everything on its
\* branch.
InvalidBlockParentFound(st, hash) == [st EXCEPT ![hash] = @ \cup {BlockFailedParent}]
InvalidBlockFound(st, hash) == [st EXCEPT ![hash] = @ \cup {BlockFailed}]
ResetBlockFailureFlags(st, hash) == [h \in NonNullHashes |-> st[h] \ BlockInvalidMask]

\* lchain.DisconnectTip: the tip leaves the active chain.
DisconnectTipResult(chain) == SubSeq(chain, 1, Len(chain) - 1)

\* lchain.ActivateBestChain: the active chain grows along the branch as far
\* as the blocks carry no failure bit.
RECURSIVE ActivateBestChainResult(_, _)
ActivateBestChainResult(chain, st) ==
    LET next == Tip(chain) + 1 IN
    IF next \in NonNullHashes /\ st[next] \cap BlockInvalidMask = {}
    THEN ActivateBestChainResult(Append(chain, next), st)
    ELSE chain

\* The index record of block h with the given status bits, as flushed.
FlushedIndex(h, bits) ==
    [BlockIndexInFile(h, MaxFile) EXCEPT !.Status = bits]

\* disk.FlushStateToDisk(FlushStateAlways): the index entries whose status
\* differs from the stored one go to the store in one batch.
FlushStateToDiskResult(db, st) ==
    LET dirty == {h \in NonNullHashes :
                     db[BlockIndexKey(h)] # Stored(FlushedIndex(h, st[h]))}
        ids == AscendingSeq(dirty)
    IN
    WriteBatchSyncResult(db, <<>>, MaxFile,
                         [i \in 1..Len(ids) |-> FlushedIndex(ids[i], st[ids[i]])],
                         0, "ok").db

\* gchain.GetChainTips() as reported by handleGetChainTips: the tip of the
\* active chain and the leaf of the branch, each with its status.
ChainTipsInfo(chain, st) ==
    {[Hash |-> h, Height |-> h - 1,
      Status |-> IF FindHashInActive(chain, h) # HashZero THEN "active"
                 ELSE IF st[h] \cap BlockInvalidMask # {} THEN "invalid"
                 ELSE "valid-fork"] : h \in {Tip(chain), MaxHash}}

\* A request in progress: the handler, where it is, its argument, and the
\* locals of the waiting handlers.
Frame(handler, pc, arg) ==
    [pc |-> pc, handler |-> handler, arg |-> arg, timeout |-> 0,
     timeEnd |-> 0, tipSeen |-> HashZero]

At(t, handler, pc) == thr[t].pc = pc /\ thr[t].handler = handler

Goto(t, pc) == thr' = [thr EXCEPT ![t].pc = pc]

\* A lock that is taken whether or not somebody holds it.
CsMainLockNoWait(t) == csMain' = t

\* persist.CsMain.Lock(): waits until the lock is free.
CsMainLock(t) == csMain = NoThread /\ csMain' = t

\* A request that has returned, its result on the way to the client.
Returned(handler, ret) == [pc |-> "return", handler |-> handler, ret |-> ret]

\* A return of the handler.
Return(t, ret) ==
    thr' = [thr EXCEPT ![t] = Returned(thr[t].handler, ret)]

\* A return past "defer persist.CsMain.Unlock()".
ReturnUnlocking(t, ret) == Return(t, ret) /\ csMain' = NoThread

\* What the RPC steps leave alone.
loaderVars == <<blkIdxMap, arena, prevLoad, synced>>

\* The server hands a request to an idle thread, which runs the handler up
\* to its first access to shared state: the parsing of the arguments, with
\* the return on a malformed hash, and the fetching of the chain instance.
Call(t, handler, arg) ==
    /\ thr[t] = Idle
    /\ thr' = [thr EXCEPT ![t] =
                  IF arg = Malformed
                  THEN Returned(handler, "malformed request")
                  ELSE Frame(handler, "lock", arg)]
    /\ UNCHANGED <<dbw, last, active, status, csMain, now, loaderVars>>

\* The server sends the result and the thread is free again.
Reply(t) ==
    /\ thr[t].pc = "return"
    /\ thr' = [thr EXCEPT ![t] = Idle]
    /\ UNCHANGED <<dbw, last, active, status, csMain, now, loaderVars>>

\* handleInvalidateBlock going on to InvalidBlockFound when DisconnectTip
\* fails, in place of the return.
handleInvalidateBlockIgnoringFailure(t) ==
    LET bkHash == thr[t].arg IN
    \/ /\ At(t, "invalidateblock", "lock")
       /\ CsMainLock(t)
       /\ Goto(t, "find")
       /\ UNCHANGED <<dbw, last, active, status, now, loaderVars>>
    \/ /\ At(t, "invalidateblock", "find")
       /\ IF FindBlockIndex(bkHash) = HashZero
          THEN ReturnUnlocking(t, "Block not found")
          ELSE Goto(t, "loop") /\ UNCHANGED csMain
       /\ UNCHANGED <<last, dbw, active, status, now, loaderVars>>
    \/ /\ At(t, "invalidateblock", "loop")
       /\ IF FindHashInActive(active, bkHash) # HashZero
          THEN /\ status' = InvalidBlockParentFound(status, Tip(active))
               /\ Goto(t, "disconnect")
          ELSE /\ Goto(t, "mark")
               /\ UNCHANGED status
       /\ UNCHANGED <<dbw, last, active, csMain, now, loaderVars>>
    \/ /\ At(t, "invalidateblock", "disconnect")
       /\ \E ok \in BOOLEAN :
             IF ok /\ Len(active) > 1
             THEN /\ active' = DisconnectTipResult(active)
                  /\ Goto(t, "loop")
             ELSE /\ Goto(t, "mark")
                  /\ UNCHANGED active
       /\ UNCHANGED <<last, dbw, status, csMain, now, loaderVars>>
    \/ /\ At(t, "invalidateblock", "mark")
       /\ status' = InvalidBlockFound(status, bkHash)
       /\ Goto(t, "activate")
       /\ UNCHANGED <<dbw, last, active, csMain, now, loaderVars>>
    \/ /\ At(t, "invalidateblock", "activate")
       /\ \E ok \in BOOLEAN :
             IF ok
             THEN /\ active' = ActivateBestChainResult(active, status)
                  /\ Goto(t, "reorg")
                  /\ UNCHANGED csMain
             ELSE /\ ReturnUnlocking(t, "failed with err")
                  /\ UNCHANGED active
       /\ UNCHANGED <<last, dbw, status, now, loaderVars>>
    \/ /\ At(t, "invalidateblock", "reorg")
       /\ ReturnUnlocking(t, "nil")
       /\ UNCHANGED <<last, dbw, active, status, now, loaderVars>>

handleInvalidateBlock(t) ==
    LET bkHash == thr[t].arg IN
    \/ /\ At(t, "invalidateblock", "lock")
       /\ CsMainLock(t)
       /\ Goto(t, "find")
       /\ UNCHANGED <<dbw, last, active, status, now, loaderVars>>
    \/ /\ At(t, "invalidateblock", "find")
       /\ IF FindBlockIndex(bkHash) = HashZero
          THEN ReturnUnlocking(t, "Block not found")
          ELSE Goto(t, "loop") /\ UNCHANGED csMain
       /\ UNCHANGED <<last, dbw, active, status, now, loaderVars>>
    \/ /\ At(t, "invalidateblock", "loop")
       /\ IF FindHashInActive(active, bkHash) # HashZero
          THEN /\ status' = InvalidBlockParentFound(status, Tip(active))
               /\ Goto(t, "disconnect")
          ELSE /\ Goto(t, "mark")
               /\ UNCHANGED status
       /\ UNCHANGED <<dbw, last, active, csMain, now, loaderVars>>
    \/ /\ At(t, "invalidateblock", "disconnect")
       /\ \E ok \in BOOLEAN :
             IF ok /\ Len(active) > 1
             THEN /\ active' = DisconnectTipResult(active)
                  /\ Goto(t, "loop")
                  /\ UNCHANGED csMain
             ELSE /\ ReturnUnlocking(t, "disconnect failed")
                  /\ UNCHANGED active
       /\ UNCHANGED <<last, dbw, status, now, loaderVars>>
    \/ /\ At(t, "invalidateblock", "mark")
       /\ status' = InvalidBlockFound(status, bkHash)
       /\ Goto(t, "activate")
       /\ UNCHANGED <<dbw, last, active, csMain, now, loaderVars>>
    \/ /\ At(t, "invalidateblock", "activate")
       /\ \E ok \in BOOLEAN :
             IF ok
             THEN /\ active' = ActivateBestChainResult(active, status)
                  /\ Goto(t, "reorg")
                  /\ UNCHANGED csMain
             ELSE /\ ReturnUnlocking(t, "failed with err")
                  /\ UNCHANGED active
       /\ UNCHANGED <<last, dbw, status, now, loaderVars>>
    \/ /\ At(t, "invalidateblock", "reorg")
       /\ ReturnUnlocking(t, "nil")
       /\ UNCHANGED <<last, dbw, active, status, now, loaderVars>>

handleReconsiderBlock(t) ==
    LET bkHash == thr[t].arg IN
    \/ /\ At(t, "reconsiderblock", "lock")
       /\ CsMainLock(t)
       /\ Goto(t, "find")
       /\ UNCHANGED <<dbw, last, active, status, now, loaderVars>>
    \/ /\ At(t, "reconsiderblock", "find")
       /\ IF FindBlockIndex(bkHash) = HashZero
          THEN ReturnUnlocking(t, "Block not found")
          ELSE Goto(t, "reset") /\ UNCHANGED csMain
       /\ UNCHANGED <<last, dbw, active, status, now, loaderVars>>
    \/ /\ At(t, "reconsiderblock", "reset")
       /\ status' = ResetBlockFailureFlags(status, bkHash)
       /\ Goto(t, "activate")
       /\ UNCHANGED <<dbw, last, active, csMain, now, loaderVars>>
    \/ /\ At(t, "reconsiderblock", "activate")
       /\ \E ok \in BOOLEAN :
             IF ok
             THEN /\ active' = ActivateBestChainResult(active, status)
                  /\ ReturnUnlocking(t, "nil")
             ELSE /\ ReturnUnlocking(t, "failed with err")
                  /\ UNCHANGED active
       /\ UNCHANGED <<last, dbw, status, now, loaderVars>>

handleGetTxoutSetInfo(t) ==
    \/ /\ At(t, "gettxoutsetinfo", "lock")
       /\ CsMainLock(t)
       /\ Goto(t, "flush")
       /\ UNCHANGED <<dbw, last, active, status, now, loaderVars>>
    \/ /\ At(t, "gettxoutsetinfo", "flush")
       /\ \E ok \in BOOLEAN :
             IF ok
             THEN /\ dbw' = FlushStateToDiskResult(dbw, status)
                  /\ Goto(t, "stats")
                  /\ UNCHANGED csMain
             ELSE /\ ReturnUnlocking(t, "flush failed")
                  /\ UNCHANGED dbw
       /\ UNCHANGED <<last, active, status, now, loaderVars>>
    \/ /\ At(t, "gettxoutsetinfo", "stats")
       /\ \E ok \in BOOLEAN :
             ReturnUnlocking(t, IF ok THEN [Height |-> TipHeight(active),
                                            BestBlock |-> Tip(active)]
                                ELSE [error |-> "stats failed"])
       /\ UNCHANGED <<last, dbw, active, status, now, loaderVars>>

handleGetChainTips(t) ==
    \/ /\ At(t, "getchaintips", "lock")
       /\ CsMainLock(t)
       /\ Goto(t, "tips")
       /\ UNCHANGED <<dbw, last, active, status, now, loaderVars>>
    \/ /\ At(t, "getchaintips", "tips")
       /\ ReturnUnlocking(t, ChainTipsInfo(active, status))
       /\ UNCHANGED <<last, dbw, active, status, now, loaderVars>>

\* The handlers that are one lock-free read of the chain.
handleGetBestBlockHash(t) ==
    /\ thr[t] = Idle
    /\ thr' = [thr EXCEPT ![t] = Returned("getbestblockhash", Tip(active))]
    /\ UNCHANGED <<dbw, last, active, status, csMain, now, loaderVars>>

\* handleGetBlockCount with the flush of handleGetTxoutSetInfo in front.
handleGetBlockCountFlushing(t) ==
    /\ thr[t] = Idle
    /\ dbw' = FlushStateToDiskResult(dbw, status)
    /\ thr' = [thr EXCEPT ![t] = Returned("getblockcount", TipHeight(active))]
    /\ UNCHANGED <<last, active, status, csMain, now, loaderVars>>

handleGetBlockCount(t) ==
    /\ thr[t] = Idle
    /\ thr' = [thr EXCEPT ![t] = Returned("getblockcount", TipHeight(active))]
    /\ UNCHANGED <<dbw, last, active, status, csMain, now, loaderVars>>

handleGetBlockHash(t, height) ==
    /\ thr[t] = Idle
    /\ thr' = [thr EXCEPT ![t] =
                  Returned("getblockhash",
                           IF GetIndex(active, height) = HashZero
                           THEN "Block height out of range"
                           ELSE GetIndex(active, height))]
    /\ UNCHANGED <<dbw, last, active, status, csMain, now, loaderVars>>

\* The node with every block of the branch connected, valid and flushed.
InitRpc ==
    /\ dbw = [k \in KeySpace |->
                 IF k[1] = DbBlockIndex THEN Stored(FlushedIndex(k[2], {}))
                 ELSE IF k = LastBlockKey THEN Bytes(U64Bytes(MaxFile))
                 ELSE NotFound]
    /\ blkIdxMap = EmptyMap
    /\ arena = <<>>
    /\ last = NoOp
    /\ prevLoad = NoOp
    /\ synced = {}
    /\ active = [i \in 1..MaxHash |-> i]
    /\ status = [h \in NonNullHashes |-> {}]
    /\ csMain = NoThread
    /\ thr = [t \in Threads |-> Idle]
    /\ now = 0

LockingHandlers == {"invalidateblock", "reconsiderblock", "gettxoutsetinfo", "getchaintips"}

NextRpc ==
    \/ \E t \in Threads, handler \in {"invalidateblock", "reconsiderblock"},
          arg \in RequestHashes : Call(t, handler, arg)
    \/ \E t \in Threads, handler \in {"gettxoutsetinfo", "getchaintips"} :
          Call(t, handler, HashZero)
    \/ \E t \in Threads : handleInvalidateBlock(t)
    \/ \E t \in Threads : handleReconsiderBlock(t)
    \/ \E t \in Threads : handleGetTxoutSetInfo(t)
    \/ \E t \in Threads : handleGetChainTips(t)
    \/ \E t \in Threads : handleGetBestBlockHash(t)
    \/ \E t \in Threads : handleGetBlockCount(t)
    \/ \E t \in Threads, height \in 0..MaxHash : handleGetBlockHash(t, height)
    \/ \E t \in Threads : Reply(t)

SpecRpc == InitRpc /\ [][NextRpc]_vars

\* Thread t is past the Lock() of a handler that takes the chain lock and
\* has not returned: it is reading or changing the chain.
InBody(t) ==
    /\ thr[t].pc \notin {"idle", "lock", "return"}
    /\ thr[t].handler \in LockingHandlers

\* C15: handleInvalidateBlock, handleReconsiderBlock and
\* handleGetTxoutSetInfo hold CsMain from before their first read of the
\* chain until they return, on every return path; no two of them, and none
\* of them with handleGetChainTips, run their bodies interleaved.
C15_ChainHandlersSerialized ==
    /\ \A t \in Threads : InBody(t) => csMain = t
    /\ \A t \in Threads : csMain = t => InBody(t)
    /\ \A t1, t2 \in Threads : (InBody(t1) /\ InBody(t2)) => t1 = t2

\* handleInvalidateBlock has disconnected a tip and is about to disconnect
\* the next while handleReconsiderBlock waits for the lock.
C15_Witness ==
    \E t1, t2 \in Threads :
        /\ At(t1, "invalidateblock", "disconnect")
        /\ Len(active) < MaxHash
        /\ At(t2, "reconsiderblock", "lock")

\* The handler a step of thread t belongs to.
HandlerOfStep(t) == IF thr[t].pc = "idle" THEN thr'[t].handler ELSE thr[t].handler

MutatingHandlers == {"invalidateblock", "reconsiderblock", "gettxoutsetinfo"}

InvalidateStep(t) == thr[t].handler = "invalidateblock" /\ thr'[t] # thr[t]

\* Frame f is that of an invalidateblock that returned the database error
\* of a failed DisconnectTip.
DisconnectFailed(f) ==
    f.pc = "return" /\ f.handler = "invalidateblock" /\ f.ret = "disconnect failed"

\* C21: handleInvalidateBlock calls InvalidBlockFound on the target only
\* once the target is out of the active chain; every DisconnectTip before
\* that takes one tip off while the target is still in the chain; when a
\* DisconnectTip fails the handler returns a database error at once, out of
\* the loop, with the chain and the status bits as they were, and so without
\* having reached InvalidBlockFound or ActivateBestChain.
C21_InvalidateAfterDisconnect ==
    [][/\ \A h \in NonNullHashes :
             (BlockFailed \in status'[h] /\ BlockFailed \notin status[h])
                 => /\ FindHashInActive(active, h) = HashZero
                    /\ \E t \in Threads : /\ At(t, "invalidateblock", "mark")
                                          /\ InvalidateStep(t)
                                          /\ thr[t].arg = h
       /\ \A t \in Threads :
             (thr[t].pc # "idle" /\ InvalidateStep(t)) =>
                /\ active' # active =>
                      \/ /\ thr[t].pc = "disconnect"
                         /\ FindHashInActive(active, thr[t].arg) # HashZero
                         /\ Len(active) > 1
                         /\ active' = SubSeq(active, 1, Len(active) - 1)
                      \/ thr[t].pc = "activate"
                /\ thr'[t].pc = "mark" =>
                      /\ thr[t].pc = "loop"
                      /\ FindHashInActive(active, thr[t].arg) = HashZero
                /\ thr'[t].pc = "activate" => thr[t].pc = "mark"
                /\ thr'[t].pc \in {"loop", "disconnect"} =>
                      thr[t].pc \in {"find", "loop", "disconnect"}
                /\ (thr[t].pc # "return" /\ DisconnectFailed(thr'[t])) <=>
                      (thr[t].pc = "disconnect" /\ active' = active)
                /\ (thr[t].pc # "return" /\ DisconnectFailed(thr'[t])) =>
                      (status' = status /\ csMain = t /\ csMain' = NoThread)]_vars

\* One invalidateblock has returned "disconnect failed" and left no block
\* marked BlockFailed, and another, having disconnected two tips, stands at
\* InvalidBlockFound with its target out of the active chain.
C21_Witness ==
    \E t1, t2 \in Threads :
        /\ DisconnectFailed(thr[t1])
        /\ At(t2, "invalidateblock", "mark")
        /\ FindHashInActive(active, thr[t2].arg) = HashZero
        /\ Len(active) = MaxHash - 2
        /\ \A h \in NonNullHashes : BlockFailed \notin status[h]

(***************************************************************************)
(* The waiting handlers.  They take no lock: every read of the chain or of *)
(* the clock is a step of its own, and the chain and the clock move        *)
(* between the steps.                                                      *)
(***************************************************************************)

\* What the waiting handlers and the moving chain leave alone.
restVars == <<dbw, last, status, csMain, loaderVars>>

\* timeEnd := time.Now().Add(timeout), a timeout of 0 standing for
\* math.MaxInt32 units.  The clock of the model stays far below MaxInt32, so
\* that end is given as MaxInt32 itself.
TimeEnd(t0, timeout) == IF timeout = 0 THEN MaxInt32 ELSE t0 + timeout

\* The *util.Hash values the handler compares.  GetBlockHash() returns the
\* address of a hash held for the index node; util.GetHashFromStr returns the
\* address of a hash it allocated for this request.  Go's == on two pointers
\* compares the addresses.
GetBlockHashPtr(hash) == [obj |-> "index", of |-> hash, hash |-> hash]
GetHashFromStrPtr(t, hash) == [obj |-> "request", of |-> t, hash |-> hash]
PtrEq(p, q) == p.obj = q.obj /\ p.of = q.of

\* A waiting request that has returned: its result, whether by timeout, and
\* the active chain at the moment of the return.
ReturnedWait(t, ret, expired) ==
    [pc |-> "return", handler |-> thr[t].handler, arg |-> thr[t].arg,
     timeout |-> thr[t].timeout, ret |-> ret, expired |-> expired,
     active |-> active]

WaitResult(hash, height) == [Hash |-> hash, Height |-> height]

\* The server hands a waiting request to a thread, none being served: the
\* handler parses its arguments and fixes the end of the wait.
CallWait(t, handler, arg, timeout) ==
    /\ \A u \in Threads : thr[u] = Idle
    /\ thr' = [thr EXCEPT ![t] =
                  IF arg = Malformed
                  THEN Returned(handler, "malformed request")
                  ELSE [Frame(handler, IF handler = "waitforblock" THEN "check"
                                       ELSE "first", arg)
                           EXCEPT !.timeout = timeout,
                                  !.timeEnd = TimeEnd(now, timeout)]]
    /\ UNCHANGED <<active, now, restVars>>

handleWaitForBlock(t) ==
    LET bkHash == GetHashFromStrPtr(t, thr[t].arg) IN
    \/ /\ At(t, "waitforblock", "check")
       /\ Goto(t, IF now > thr[t].timeEnd THEN "expiredHash" ELSE "tip")
       /\ UNCHANGED <<active, now, restVars>>
    \/ /\ At(t, "waitforblock", "expiredHash")
       /\ thr' = [thr EXCEPT ![t].tipSeen = Tip(active), ![t].pc = "expiredHeight"]
       /\ UNCHANGED <<active, now, restVars>>
    \/ /\ At(t, "waitforblock", "expiredHeight")
       /\ thr' = [thr EXCEPT ![t] =
                     ReturnedWait(t, WaitResult(thr[t].tipSeen, TipHeight(active)), TRUE)]
       /\ UNCHANGED <<active, now, restVars>>
    \/ /\ At(t, "waitforblock", "tip")
       /\ LET chainTip == Tip(active)
              tipHash == GetBlockHashPtr(chainTip)
          IN
          thr' = [thr EXCEPT ![t] =
                     IF PtrEq(tipHash, bkHash)
                     THEN ReturnedWait(t, WaitResult(thr[t].arg, chainTip - 1), FALSE)
                     ELSE [@ EXCEPT !.tipSeen = chainTip, !.pc = "sleep"]]
       /\ UNCHANGED <<active, now, restVars>>
    \/ /\ At(t, "waitforblock", "sleep")
       /\ thr' = [thr EXCEPT ![t].tipSeen = HashZero, ![t].pc = "check"]
       /\ UNCHANGED <<active, now, restVars>>

handleWaitForBlockHeight(t) ==
    LET height == thr[t].arg IN
    \/ /\ At(t, "waitforblockheight", "first")
       /\ Goto(t, IF height <= TipHeight(active) THEN "firstHash" ELSE "check")
       /\ UNCHANGED <<active, now, restVars>>
    \/ /\ thr[t].pc \in {"firstHash", "expiredHash"}
       /\ thr[t].handler = "waitforblockheight"
       /\ thr' = [thr EXCEPT ![t].tipSeen = Tip(active),
                             ![t].pc = IF @ = "firstHash" THEN "firstHeight"
                                       ELSE "expiredHeight"]
       /\ UNCHANGED <<active, now, restVars>>
    \/ /\ thr[t].pc \in {"firstHeight", "expiredHeight"}
       /\ thr[t].handler = "waitforblockheight"
       /\ thr' = [thr EXCEPT ![t] =
                     ReturnedWait(t, WaitResult(thr[t].tipSeen, TipHeight(active)),
                                  thr[t].pc = "expiredHeight")]
       /\ UNCHANGED <<active, now, restVars>>
    \/ /\ At(t, "waitforblockheight", "check")
       /\ Goto(t, IF height <= TipHeight(active) THEN "index" ELSE "time")
       /\ UNCHANGED <<active, now, restVars>>
    \/ /\ thr[t].pc \in {"index", "indexExpired"}
       /\ thr[t].handler = "waitforblockheight"
       /\ thr' = [thr EXCEPT ![t] =
                     ReturnedWait(t, IF GetIndex(active, height) = HashZero
                                     THEN "panic"
                                     ELSE WaitResult(GetIndex(active, height), height),
                                  thr[t].pc = "indexExpired")]
       /\ UNCHANGED <<active, now, restVars>>
    \/ /\ At(t, "waitforblockheight", "time")
       /\ Goto(t, IF now > thr[t].timeEnd THEN "recheck" ELSE "sleep")
       /\ UNCHANGED <<active, now, restVars>>
    \/ /\ At(t, "waitforblockheight", "recheck")
       /\ Goto(t, IF height <= TipHeight(active) THEN "indexExpired" ELSE "expiredHash")
       /\ UNCHANGED <<active, now, restVars>>
    \/ /\ At(t, "waitforblockheight", "sleep")
       /\ Goto(t, "check")
       /\ UNCHANGED <<active, now, restVars>>

\* The server sends the result of a waiting request.
ReplyWait(t) ==
    /\ thr[t].pc = "return"
    /\ thr' = [thr EXCEPT ![t] = Idle]
    /\ UNCHANGED <<active, now, restVars>>

\* The rest of the node connects the next block of the branch, or
\* disconnects the tip, while requests wait.
ConnectTip ==
    /\ Len(active) < MaxHash
    /\ active' = Append(active, Tip(active) + 1)
    /\ UNCHANGED <<thr, now, restVars>>

DisconnectTip ==
    /\ Len(active) > 1
    /\ active' = DisconnectTipResult(active)
    /\ UNCHANGED <<thr, now, restVars>>

Tick ==
    /\ now < MaxTime
    /\ now' = now + 1
    /\ UNCHANGED <<active, thr, restVars>>

InitWait ==
    /\ dbw = EmptyDb
    /\ blkIdxMap = EmptyMap
    /\ arena = <<>>
    /\ last = NoOp
    /\ prevLoad = NoOp
    /\ synced = {}
    /\ \E n \in 1..MaxHash : active = [i \in 1..n |-> i]
    /\ status = [h \in NonNullHashes |-> {}]
    /\ csMain = NoThread
    /\ thr = [t \in Threads |-> Idle]
    /\ now = 0

NextWait ==
    \/ \E t \in Threads, arg \in RequestHashes, timeout \in 0..MaxTimeout :
          CallWait(t, "waitforblock", arg, timeout)
    \/ \E t \in Threads, height \in 0..MaxHash, timeout \in 0..MaxTimeout :
          CallWait(t, "waitforblockheight", height, timeout)
    \/ \E t \in Threads : handleWaitForBlock(t)
    \/ \E t \in Threads : handleWaitForBlockHeight(t)
    \/ \E t \in Threads : ReplyWait(t)
    \/ ConnectTip
    \/ DisconnectTip
    \/ Tick

SpecWait == InitWait /\ [][NextWait]_vars

\* C19: handleWaitForBlock returns the requested hash and the tip's height
\* as soon as it observes that the tip's hash has the same value as the
\* requested hash, before the timeout expires: it never goes to sleep over a
\* tip whose hash is the requested one.
C19_ReturnsOnMatchingTip ==
    \A t \in Threads :
        At(t, "waitforblock", "sleep") => thr[t].tipSeen # thr[t].arg

\* C20: whenever handleWaitForBlockHeight returns while the requested height
\* is at most the tip height, the result's Height is the requested height and
\* its Hash the hash of the active-chain block at that height; it returns the
\* tip's hash and height only when the timeout expired with the tip below
\* the requested height.
C20_ReturnsBlockAtHeight ==
    \A t \in Threads :
        (thr[t].pc = "return" /\ thr[t].handler = "waitforblockheight") =>
            IF thr[t].arg <= TipHeight(thr[t].active)
            THEN thr[t].ret = WaitResult(GetIndex(thr[t].active, thr[t].arg), thr[t].arg)
            ELSE /\ thr[t].expired
                 /\ thr[t].ret = WaitResult(Tip(thr[t].active), TipHeight(thr[t].active))

====
